---- MODULE Spec2Model ----
(***************************************************************************)
(* Model of src/main.rs: the CSV loader parse_artist_data, the closed-form *)
(* least-squares fit calculate_regression, and the driver main.            *)
(*                                                                         *)
(* f64 values are modelled bit-exactly (IEEE-754 binary64, round to        *)
(* nearest, ties to even), because several properties of the fit are       *)
(* decided by rounding.  Mantissas need more than 32 bits, so naturals     *)
(* are kept as little-endian sequences of 15-bit limbs.                    *)
(***************************************************************************)
EXTENDS Integers, Sequences, FiniteSets, TLC

(* ---------------- unbounded naturals (little-endian limbs) ------------- *)

\* width of one limb: products of two limbs fit TLC's 32-bit integers
LimbBits == 15
Base == 2^LimbBits

IMin(a, b) == IF a < b THEN a ELSE b
IMax(a, b) == IF a > b THEN a ELSE b

RECURSIVE BNorm(_)
BNorm(a) ==
  IF a = <<>> THEN a
  ELSE IF a[Len(a)] = 0 THEN BNorm(SubSeq(a, 1, Len(a) - 1)) ELSE a

BFromInt(n) ==
  IF n = 0 THEN <<>>
  ELSE IF n < Base THEN <<n>>
  ELSE IF n < Base * Base THEN <<n % Base, n \div Base>>
  ELSE <<n % Base, (n \div Base) % Base, n \div (Base * Base)>>

RECURSIVE BAddC(_, _, _)
BAddC(a, b, c) ==
  IF a = <<>> /\ b = <<>> THEN (IF c = 0 THEN <<>> ELSE <<c>>)
  ELSE LET addX == IF a = <<>> THEN 0 ELSE Head(a)
           addY == IF b = <<>> THEN 0 ELSE Head(b)
           addS == addX + addY + c
       IN <<addS % Base>> \o BAddC(IF a = <<>> THEN a ELSE Tail(a),
                                IF b = <<>> THEN b ELSE Tail(b), addS \div Base)

BAdd(a, b) == BAddC(a, b, 0)

RECURSIVE BSubC(_, _, _)
BSubC(a, b, c) ==
  IF a = <<>> THEN <<>>
  ELSE LET subY == IF b = <<>> THEN 0 ELSE Head(b)
           subD == Head(a) - subY - c
       IN <<IF subD < 0 THEN subD + Base ELSE subD>>
          \o BSubC(Tail(a), IF b = <<>> THEN b ELSE Tail(b), IF subD < 0 THEN 1 ELSE 0)

\* a - b for a >= b
BSub(a, b) == BNorm(BSubC(a, b, 0))

RECURSIVE BCmpAt(_, _, _)
BCmpAt(a, b, i) ==
  IF i = 0 THEN 0
  ELSE IF a[i] > b[i] THEN 1
  ELSE IF a[i] < b[i] THEN -1
  ELSE BCmpAt(a, b, i - 1)

\* -1, 0, 1 as a < b, a = b, a > b
BCmp(a, b) ==
  IF Len(a) > Len(b) THEN 1
  ELSE IF Len(a) < Len(b) THEN -1
  ELSE BCmpAt(a, b, Len(a))

RECURSIVE BMulSmallC(_, _, _)
BMulSmallC(a, k, c) ==
  IF a = <<>> THEN (IF c = 0 THEN <<>> ELSE <<c>>)
  ELSE LET mulP == Head(a) * k + c
       IN <<mulP % Base>> \o BMulSmallC(Tail(a), k, mulP \div Base)

\* a * k for 0 <= k < Base
BMulSmall(a, k) == IF k = 0 THEN <<>> ELSE BMulSmallC(a, k, 0)

RECURSIVE BMul(_, _)
BMul(a, b) ==
  IF a = <<>> \/ b = <<>> THEN <<>>
  ELSE LET mulRest == BMul(a, Tail(b))
       IN BAdd(BMulSmall(a, Head(b)), IF mulRest = <<>> THEN mulRest ELSE <<0>> \o mulRest)

\* a * 2^n
BShl(a, n) ==
  IF a = <<>> THEN a
  ELSE [i \in 1..(n \div LimbBits) |-> 0] \o BMulSmall(a, 2^(n % LimbBits))

\* floor(a / 2^n)
BShr(a, n) ==
  LET shrK == n \div LimbBits
      shrR == n % LimbBits
      shrD == IF shrK >= Len(a) THEN <<>> ELSE SubSeq(a, shrK + 1, Len(a))
      shrP == 2^shrR
      shrQ == 2^(LimbBits - shrR)
  IN BNorm([i \in 1..Len(shrD) |->
              (shrD[i] \div shrP) + (IF i < Len(shrD) THEN (shrD[i + 1] % shrP) * shrQ ELSE 0)])

\* a mod 2^n
BLow(a, n) ==
  LET lowK == n \div LimbBits
      lowR == n % LimbBits
  IN IF lowK >= Len(a) THEN a
     ELSE BNorm(SubSeq(a, 1, lowK) \o <<a[lowK + 1] % (2^lowR)>>)

RECURSIVE SmallBitLen(_)
SmallBitLen(n) == IF n = 0 THEN 0 ELSE 1 + SmallBitLen(n \div 2)

BBitLen(a) ==
  IF a = <<>> THEN 0 ELSE LimbBits * (Len(a) - 1) + SmallBitLen(a[Len(a)])

\* bit i (0 = least significant) of a
BBit(a, i) ==
  LET bitK == i \div LimbBits
  IN IF bitK >= Len(a) THEN 0 ELSE (a[bitK + 1] \div (2^(i % LimbBits))) % 2

\* Long division in radix 2^DivBits.  The state st = [i, q, r] has brought
\* down the radix digits i and above of the dividend a: q = floor(a' / b) and
\* r = a' mod b for the part a' of a brought down so far.
DivBits == 5

BDivDigit(a, j) ==
  LET ddAt == j * DivBits
      ddK == ddAt \div LimbBits
  IN IF ddK >= Len(a) THEN 0
     ELSE (a[ddK + 1] \div (2^(ddAt % LimbBits))) % (2^DivBits)

BDivStep(a, b, st) ==
  LET dsR == BAddC(BMulSmall(st.r, 2^DivBits), <<>>, BDivDigit(a, st.i - 1))
      dsD == Cardinality({d \in 1..(2^DivBits - 1) : BCmp(BMulSmall(b, d), dsR) <= 0})
  IN [i |-> st.i - 1,
      q |-> BAddC(BMulSmall(st.q, 2^DivBits), <<>>, dsD),
      r |-> BSub(dsR, BMulSmall(b, dsD))]

RECURSIVE BDivLoop(_, _, _)
BDivLoop(a, b, st) == IF st.i = 0 THEN st ELSE BDivLoop(a, b, BDivStep(a, b, st))

\* [q, r]: floor(a / b) and a mod b, for b > 0
BDivMod(a, b) ==
  BDivLoop(a, b, [i |-> (BBitLen(a) + DivBits - 1) \div DivBits, q |-> <<>>, r |-> <<>>])

\* 10^n
RECURSIVE BPow10(_)
BPow10(n) ==
  IF n = 0 THEN <<1>>
  ELSE LET powH == BPow10(n \div 2)
       IN BMulSmall(BMul(powH, powH), IF n % 2 = 1 THEN 10 ELSE 1)

(* ---------------- IEEE-754 binary64 (the f64 of src/main.rs) ----------- *)
(* A value is [k, s, m, e]: k is "fin", "inf" or "nan", s the sign bit;    *)
(* a finite value is (-1)^s * m * 2^e with m odd (or m = 0, e = 0), which  *)
(* is a canonical form, so = on finite values is equality of bit patterns. *)

Precision == 53        \* significand bits
MinQuantum == -1074    \* exponent of the least subnormal, 2^-1074
MaxExp == 1024         \* magnitudes of 2^1024 and above overflow to infinity

Zero(s) == [k |-> "fin", s |-> s, m |-> <<>>, e |-> 0]
Inf(s) == [k |-> "inf", s |-> s, m |-> <<>>, e |-> 0]
NaN == [k |-> "nan", s |-> 0, m |-> <<>>, e |-> 0]

IsNaN(x) == x.k = "nan"
IsFinite(x) == x.k = "fin"
IsZero(x) == x.k = "fin" /\ x.m = <<>>

RECURSIVE SmallTZ(_)
SmallTZ(n) == IF n % 2 = 1 THEN 0 ELSE 1 + SmallTZ(n \div 2)

RECURSIVE Canon(_, _, _)
Canon(s, m, e) ==
  IF m = <<>> THEN Zero(s)
  ELSE IF m[1] = 0 THEN Canon(s, Tail(m), e + LimbBits)
  ELSE LET canT == SmallTZ(m[1])
       IN [k |-> "fin", s |-> s, m |-> BShr(m, canT), e |-> e + canT]

\* the binary64 nearest to (-1)^s * m * 2^e, ties to even
RoundF64(s, m, e) ==
  IF m = <<>> THEN Zero(s)
  ELSE LET rndLen == BBitLen(m)
           rndQ == IF rndLen + e - Precision > MinQuantum
                 THEN rndLen + e - Precision ELSE MinQuantum
       IN IF rndQ <= e
          THEN (IF rndLen + e > MaxExp THEN Inf(s) ELSE Canon(s, m, e))
          ELSE LET rndSh == rndQ - e
                   rndKeep == BShr(m, rndSh)
                   rndC == BCmp(BLow(m, rndSh), BShl(<<1>>, rndSh - 1))
                   rndUp == rndC > 0 \/ (rndC = 0 /\ BBit(rndKeep, 0) = 1)
                   rndR == IF rndUp THEN BAddC(rndKeep, <<>>, 1) ELSE rndKeep
               IN IF BBitLen(rndR) + rndQ > MaxExp THEN Inf(s) ELSE Canon(s, rndR, rndQ)

\* position of the leading bit of a finite non-zero value: 2^(Top-1) <= |x| < 2^Top
Top(x) == BBitLen(x.m) + x.e

FNeg(x) == IF x.k = "nan" THEN x ELSE [x EXCEPT !.s = 1 - x.s]
FAbs(x) == IF x.k = "nan" THEN x ELSE [x EXCEPT !.s = 0]

FAdd(x, y) ==
  IF x.k = "nan" \/ y.k = "nan" THEN NaN
  ELSE IF x.k = "inf" THEN (IF y.k = "inf" /\ y.s # x.s THEN NaN ELSE x)
  ELSE IF y.k = "inf" THEN y
  ELSE IF x.m = <<>> /\ y.m = <<>> THEN Zero(IF x.s = 1 /\ y.s = 1 THEN 1 ELSE 0)
  ELSE IF x.m = <<>> THEN y
  ELSE IF y.m = <<>> THEN x
  \* an operand below an eighth of the other's last place cannot move it
  ELSE IF Top(x) - Top(y) > Precision + 3 THEN x
  ELSE IF Top(y) - Top(x) > Precision + 3 THEN y
  ELSE LET faE == IMin(x.e, y.e)
           faA == BShl(x.m, x.e - faE)
           faB == BShl(y.m, y.e - faE)
           faC == BCmp(faA, faB)
       IN IF x.s = y.s THEN RoundF64(x.s, BAdd(faA, faB), faE)
          ELSE IF faC = 0 THEN Zero(0)
          ELSE IF faC > 0 THEN RoundF64(x.s, BSub(faA, faB), faE)
          ELSE RoundF64(y.s, BSub(faB, faA), faE)

FSub(x, y) == FAdd(x, FNeg(y))

FMul(x, y) ==
  LET fmS == (x.s + y.s) % 2
  IN IF x.k = "nan" \/ y.k = "nan" THEN NaN
     ELSE IF x.k = "inf" \/ y.k = "inf"
          THEN (IF IsZero(x) \/ IsZero(y) THEN NaN ELSE Inf(fmS))
     ELSE IF x.m = <<>> \/ y.m = <<>> THEN Zero(fmS)
     ELSE RoundF64(fmS, BMul(x.m, y.m), x.e + y.e)

\* Float division never traps: x/0 is an infinity, 0/0 and inf/inf are NaN.
FDiv(x, y) ==
  LET fdS == (x.s + y.s) % 2
  IN IF x.k = "nan" \/ y.k = "nan" THEN NaN
     ELSE IF x.k = "inf" THEN (IF y.k = "inf" THEN NaN ELSE Inf(fdS))
     ELSE IF y.k = "inf" THEN Zero(fdS)
     ELSE IF y.m = <<>> THEN (IF x.m = <<>> THEN NaN ELSE Inf(fdS))
     ELSE IF x.m = <<>> THEN Zero(fdS)
     ELSE LET fdK == IMax(0, Precision + 3 + BBitLen(y.m) - BBitLen(x.m))
              fdQR == BDivMod(BShl(x.m, fdK), y.m)
              \* quotient with a sticky bit for the remainder
              fdM == BAddC(BMulSmall(fdQR.q, 2), <<>>, IF fdQR.r = <<>> THEN 0 ELSE 1)
          IN RoundF64(fdS, fdM, x.e - y.e - fdK - 1)

\* `n as f64` for a length n (exact below 2^53)
FromUsize(n) == Canon(0, BFromInt(n), 0)

Sgn(x) == IF IsZero(x) THEN 0 ELSE IF x.s = 1 THEN -1 ELSE 1

MagCmp(x, y) ==
  IF x.k = "inf" THEN (IF y.k = "inf" THEN 0 ELSE 1)
  ELSE IF y.k = "inf" THEN -1
  ELSE IF Top(x) # Top(y) THEN (IF Top(x) > Top(y) THEN 1 ELSE -1)
  ELSE LET mcE == IMin(x.e, y.e)
       IN BCmp(BShl(x.m, x.e - mcE), BShl(y.m, y.e - mcE))

\* IEEE comparison: -1, 0, 1, or 2 when unordered (a NaN operand)
FCmp(x, y) ==
  IF x.k = "nan" \/ y.k = "nan" THEN 2
  ELSE IF Sgn(x) # Sgn(y) THEN (IF Sgn(x) < Sgn(y) THEN -1 ELSE 1)
  ELSE IF Sgn(x) = 0 THEN 0
  ELSE Sgn(x) * MagCmp(x, y)

FEq(x, y) == FCmp(x, y) = 0
FLt(x, y) == FCmp(x, y) = -1
FLe(x, y) == FCmp(x, y) \in {-1, 0}

(* ---------------- text: str as a sequence of one-character strings ----- *)

UpperChars == <<"A", "B", "C", "D", "E", "F", "G", "H", "I", "J", "K", "L", "M",
                "N", "O", "P", "Q", "R", "S", "T", "U", "V", "W", "X", "Y", "Z">>
LowerChars == <<"a", "b", "c", "d", "e", "f", "g", "h", "i", "j", "k", "l", "m",
                "n", "o", "p", "q", "r", "s", "t", "u", "v", "w", "x", "y", "z">>
DigitChars == <<"0", "1", "2", "3", "4", "5", "6", "7", "8", "9">>

IsDigit(ch) == \E dv \in 1..10 : DigitChars[dv] = ch
DigitVal(ch) == (CHOOSE dv \in 1..10 : DigitChars[dv] = ch) - 1
AllDigits(t) == \A ti \in 1..Len(t) : IsDigit(t[ti])

AsciiLower(ch) ==
  IF \E li \in 1..26 : UpperChars[li] = ch
  THEN LowerChars[CHOOSE li \in 1..26 : UpperChars[li] = ch]
  ELSE ch

LowerText(t) == [ti \in 1..Len(t) |-> AsciiLower(t[ti])]

\* index of the first character of t satisfying Test, or 0
FirstIndex(t, Test(_)) ==
  IF \E ti \in 1..Len(t) : Test(t[ti])
  THEN CHOOSE ti \in 1..Len(t) : Test(t[ti]) /\ \A tj \in 1..(ti - 1) : ~Test(t[tj])
  ELSE 0

\* the integer a short run of decimal digits denotes
RECURSIVE SmallDec(_)
SmallDec(t) ==
  IF t = <<>> THEN 0 ELSE SmallDec(SubSeq(t, 1, Len(t) - 1)) * 10 + DigitVal(t[Len(t)])

\* the natural a run of decimal digits denotes, four digits at a time
RECURSIVE DecNat(_)
DecNat(t) ==
  IF Len(t) <= 4 THEN BFromInt(SmallDec(t))
  ELSE BAddC(BMulSmall(DecNat(SubSeq(t, 1, Len(t) - 4)), 10000), <<>>,
             SmallDec(SubSeq(t, Len(t) - 3, Len(t))))

\* the same as a TLC integer, saturating at ExpCap: every decimal exponent
\* beyond it already overflows or underflows binary64
ExpCap == 100000

RECURSIVE DecIntCapped(_)
DecIntCapped(t) ==
  IF t = <<>> THEN 0
  ELSE IMin(ExpCap, DecIntCapped(SubSeq(t, 1, Len(t) - 1)) * 10 + DigitVal(t[Len(t)]))

(* ---------------- str::parse::<f64>() ---------------------------------- *)
(* The grammar of core's FromStr for f64:                                  *)
(*   Float  ::= Sign? ( 'inf' | 'infinity' | 'nan' | Number )              *)
(*   Number ::= ( Digit+ | Digit+ '.' Digit* | Digit* '.' Digit+ ) Exp?    *)
(*   Exp    ::= 'e' Sign? Digit+                                           *)
(* letters in any case, no surrounding white space; the result is the      *)
(* binary64 nearest to the decimal value.                                  *)

\* the binary64 nearest to (-1)^s * d * 10^e10
DecToF64(s, d, e10) ==
  IF d = <<>> THEN Zero(s)
  ELSE IF e10 >= 0
       THEN (IF e10 > 400 THEN Inf(s) ELSE RoundF64(s, BMul(d, BPow10(e10)), 0))
  ELSE IF BBitLen(d) < 3 * (-e10) - 1200 THEN Zero(s)
  ELSE LET dfP == BPow10(-e10)
           dfK == IMax(0, Precision + 3 + BBitLen(dfP) - BBitLen(d))
           dfQR == BDivMod(BShl(d, dfK), dfP)
           dfM == BAddC(BMulSmall(dfQR.q, 2), <<>>, IF dfQR.r = <<>> THEN 0 ELSE 1)
       IN RoundF64(s, dfM, -dfK - 1)

ParseErr == [ok |-> FALSE, v |-> Zero(0)]
ParseOk(x) == [ok |-> TRUE, v |-> x]

IsExpMark(ch) == ch \in {"e", "E"}
IsPoint(ch) == ch = "."
IsSign(ch) == ch \in {"+", "-"}

\* Number, for the sign s already read
ParseNumber(s, t) ==
  LET pnE == FirstIndex(t, IsExpMark)
      pnMant == IF pnE = 0 THEN t ELSE SubSeq(t, 1, pnE - 1)
      pnExp == IF pnE = 0 THEN <<>> ELSE SubSeq(t, pnE + 1, Len(t))
      pnNeg == pnExp # <<>> /\ pnExp[1] = "-"
      pnExpDigits == IF pnExp # <<>> /\ IsSign(pnExp[1]) THEN Tail(pnExp) ELSE pnExp
      pnDot == FirstIndex(pnMant, IsPoint)
      pnInt == IF pnDot = 0 THEN pnMant ELSE SubSeq(pnMant, 1, pnDot - 1)
      pnFrac == IF pnDot = 0 THEN <<>> ELSE SubSeq(pnMant, pnDot + 1, Len(pnMant))
      pnE10 == (IF pnNeg THEN -1 ELSE 1) * DecIntCapped(pnExpDigits) - Len(pnFrac)
  IN IF ~AllDigits(pnInt) \/ ~AllDigits(pnFrac) \/ Len(pnInt) + Len(pnFrac) = 0
        THEN ParseErr
     ELSE IF pnE # 0 /\ (pnExpDigits = <<>> \/ ~AllDigits(pnExpDigits)) THEN ParseErr
     ELSE ParseOk(DecToF64(s, DecNat(pnInt \o pnFrac), pnE10))

ParseF64(t) ==
  LET pfSigned == t # <<>> /\ IsSign(t[1])
      pfS == IF pfSigned /\ t[1] = "-" THEN 1 ELSE 0
      pfRest == IF pfSigned THEN Tail(t) ELSE t
      pfWord == LowerText(pfRest)
  IN IF pfWord = <<"i", "n", "f">> \/ pfWord = <<"i", "n", "f", "i", "n", "i", "t", "y">>
        THEN ParseOk(Inf(pfS))
     ELSE IF pfWord = <<"n", "a", "n">> THEN ParseOk(NaN)
     ELSE ParseNumber(pfS, pfRest)

(* ---------------- the loader: parse_artist_data ------------------------ *)
(* The file is modelled as csv::Reader sees it: it may not exist; else it  *)
(* is a header record and data records, each a sequence of cells.  The     *)
(* default reader is not flexible: a record whose number of fields differs *)
(* from the first record's is a read error.                                *)

\* s.replace(',', "")
StripCommas(t) == SelectSeq(t, LAMBDA ch : ch # ",")

\* record.get(i).unwrap_or("0").replace(',', "").parse().unwrap_or_else(|_| 0.0)
\* for the zero-based column i
\* Field with NaN, not 0.0, substituted when the parse fails
FieldNaN(row, i) ==
  LET fnCell == IF i + 1 <= Len(row) THEN row[i + 1] ELSE <<"0">>
      fnParsed == ParseF64(StripCommas(fnCell))
  IN IF fnParsed.ok THEN fnParsed.v ELSE NaN

\* Field with the sentinel "-1", not "0", standing for a missing cell
FieldSentinel(row, i) ==
  LET fsCell == IF i + 1 <= Len(row) THEN row[i + 1] ELSE <<"-", "1">>
      fsParsed == ParseF64(StripCommas(fsCell))
  IN IF fsParsed.ok THEN fsParsed.v ELSE Zero(0)

\* record.get(i).unwrap_or("0").replace(',', "").parse().unwrap_or_else(|_| 0.0)
Field(row, i) ==
  LET fCell == IF i + 1 <= Len(row) THEN row[i + 1] ELSE <<"0">>
      fParsed == ParseF64(StripCommas(fCell))
  IN IF fParsed.ok THEN fParsed.v ELSE Zero(0)

\* ArtistData reading name,total,solo,lead,feature from columns 0..4
ArtistDataShifted(row) ==
  [total_streams |-> Field(row, 1), solo_streams |-> Field(row, 2),
   feature_streams |-> Field(row, 4), lead_streams |-> Field(row, 3)]

ArtistData(row) ==
  [total_streams |-> Field(row, 1),
   solo_streams |-> Field(row, 3),
   feature_streams |-> Field(row, 5),
   lead_streams |-> Field(row, 4)]

\* what reader.records() yields for data row i: Ok(record) or Err
RecordIsErr(f, i) == Len(f.rows[i]) # Len(f.header)

(* ---------------- the fit: calculate_regression ------------------------ *)

\* Iterator::sum::<f64>() folds from the left, starting at zero.  The sign of
\* that zero depends on the toolchain (+0.0 before Rust 1.83, -0.0 since); z
\* is its sign bit.
RECURSIVE SumTo(_, _, _)
SumTo(vals, i, z) == IF i = 0 THEN Zero(z) ELSE FAdd(SumTo(vals, i - 1, z), vals[i])

Sum(vals, z) == SumTo(vals, Len(vals), z)

\* n * sum_xx - sum_x * sum_x
Denominator(n, sum_x, sum_xx) == FSub(FMul(n, sum_xx), FMul(sum_x, sum_x))

\* Slope with sum_x written for sum_y in the numerator
SlopeTypo(n, sum_x, sum_y, sum_xy, sum_xx) ==
  FDiv(FSub(FMul(n, sum_xy), FMul(sum_x, sum_x)), Denominator(n, sum_x, sum_xx))

\* Slope with a guard returning 0.0 for a zero denominator
SlopeGuarded(n, sum_x, sum_y, sum_xy, sum_xx) ==
  IF IsZero(Denominator(n, sum_x, sum_xx))
  THEN Zero(0)
  ELSE FDiv(FSub(FMul(n, sum_xy), FMul(sum_x, sum_y)), Denominator(n, sum_x, sum_xx))

Slope(n, sum_x, sum_y, sum_xy, sum_xx) ==
  FDiv(FSub(FMul(n, sum_xy), FMul(sum_x, sum_y)), Denominator(n, sum_x, sum_xx))

\* Intercept without the division by n
InterceptNotAveraged(n, sum_x, sum_y, slope) == FSub(sum_y, FMul(slope, sum_x))

Intercept(n, sum_x, sum_y, slope) == FDiv(FSub(sum_y, FMul(slope, sum_x)), n)

\* data is a sequence of pairs <<x, y>>; the result is <<slope, intercept>>
calculate_regression(data, z) ==
  LET crN == FromUsize(Len(data))
      crSx == Sum([di \in 1..Len(data) |-> data[di][1]], z)
      crSy == Sum([di \in 1..Len(data) |-> data[di][2]], z)
      crSxy == Sum([di \in 1..Len(data) |-> FMul(data[di][1], data[di][2])], z)
      crSxx == Sum([di \in 1..Len(data) |-> FMul(data[di][1], data[di][1])], z)
      crSlope == Slope(crN, crSx, crSy, crSxy, crSxx)
  IN <<crSlope, Intercept(crN, crSx, crSy, crSlope)>>

(* ---------------- the driver: main ------------------------------------- *)

\* the three analyses of main, in program order: the record field used as x,
\* the label of the printed regression line, the title and the file name
\* handed to visualize_relationship, and the label of its error message
Relationships ==
  <<[x |-> "solo_streams", label |-> "Solo Streams",
     title |-> <<"T", "o", "t", "a", "l", " ", "S", "t", "r", "e", "a", "m", "s", " ", "v", "s", " ", "S", "o", "l", "o", " ", "S", "t", "r", "e", "a", "m", "s">>,
     file_name |-> <<"s", "o", "l", "o", "_", "r", "e", "l", "a", "t", "i", "o", "n", "s", "h", "i", "p", ".", "p", "n", "g">>,
     plot |-> "solo streams"],
    [x |-> "feature_streams", label |-> "Featured Streams",
     title |-> <<"T", "o", "t", "a", "l", " ", "S", "t", "r", "e", "a", "m", "s", " ", "v", "s", " ", "F", "e", "a", "t", "u", "r", "e", "d", " ", "S", "t", "r", "e", "a", "m", "s">>,
     file_name |-> <<"f", "e", "a", "t", "u", "r", "e", "d", "_", "r", "e", "l", "a", "t", "i", "o", "n", "s", "h", "i", "p", ".", "p", "n", "g">>,
     plot |-> "featured streams"],
    [x |-> "lead_streams", label |-> "Lead Streams",
     title |-> <<"T", "o", "t", "a", "l", " ", "S", "t", "r", "e", "a", "m", "s", " ", "v", "s", " ", "L", "e", "a", "d", " ", "S", "t", "r", "e", "a", "m", "s">>,
     file_name |-> <<"l", "e", "a", "d", "_", "r", "e", "l", "a", "t", "i", "o", "n", "s", "h", "i", "p", ".", "p", "n", "g">>,
     plot |-> "lead streams"]>>

\* a title lower-cased, its spaces replaced by underscores, ".png" appended
TitlePath(t) ==
  [ti \in 1..Len(t) |-> IF t[ti] = " " THEN "_" ELSE AsciiLower(t[ti])]
    \o <<".", "p", "n", "g">>

\* the file name of relationship r derived from its title
FileNameFromTitle(r) == TitlePath(Relationships[r].title)

\* the file name handed to visualize_relationship for relationship r
FileName(r) == Relationships[r].file_name

\* data.iter().map(|d| (d.<x>, d.total_streams)).collect()
Samples(data, r) ==
  [di \in 1..Len(data) |-> <<data[di][Relationships[r].x], data[di].total_streams>>]

(* ---------------- inputs ----------------------------------------------- *)

MaxRows == 2       \* data rows of an input file
MaxSamples == 3    \* samples handed to calculate_regression on its own

Header6 == <<<<"A">>, <<"S">>, <<"D">>, <<"s">>, <<"l">>, <<"f">>>>
Header5 == <<<<"n">>, <<"t">>, <<"s">>, <<"l">>, <<"f">>>>
Header2 == <<<<"n">>, <<"t">>>>

\* Artist1,1000,500,300,200 and Artist2,2000,800,600,400
ScenarioRows ==
  <<<<<<"A", "r", "t", "i", "s", "t", "1">>, <<"1", "0", "0", "0">>, <<"5", "0", "0">>, <<"3", "0", "0">>, <<"2", "0", "0">>>>,
    <<<<"A", "r", "t", "i", "s", "t", "2">>, <<"2", "0", "0", "0">>, <<"8", "0", "0">>, <<"6", "0", "0">>, <<"4", "0", "0">>>>>>

RowPool ==
  { \* six columns: name, total, (unused), solo, lead, feature
    <<<<"A", "r", "t", "i", "s", "t", "1">>, <<"1", ",", "2", "3", "4">>, <<>>, <<"5", "0", "0">>, <<"3", "0", "0">>, <<"2", "0", "0">>>>,
    <<<<"A", "r", "t", "i", "s", "t", "2">>, <<"2", "0", "0", "0">>, <<"x">>, <<"8", "0", "0">>, <<"a", "b", "c">>, <<>>>>,
    <<<<"A", "r", "t", "i", "s", "t", "3">>, <<"-", "5">>, <<>>, <<"n", "a", "n">>, <<" ", "7">>, <<"1", "e", "3">>>>,
    \* five columns: name, total, solo, lead, feature
    ScenarioRows[1], ScenarioRows[2],
    \* two columns: name, total
    <<<<"A", "r", "t", "i", "s", "t", "3">>, <<"4", "2">>>> }

NoFile == [exists |-> FALSE, header |-> <<>>, rows |-> <<>>]

Files ==
  {NoFile} \cup
  {[exists |-> TRUE, header |-> h, rows |-> rs] :
     h \in {Header6, Header5, Header2},
     rs \in UNION {[1..n -> RowPool] : n \in 0..MaxRows}}

FromInt(n) == IF n < 0 THEN FNeg(FromUsize(-n)) ELSE FromUsize(n)

Point(px, py) == <<FromInt(px), FromInt(py)>>

PointPool ==
  {Point(1, 2), Point(2, 4), Point(3, 6), Point(2, 3),
   Point(100000001, 100000002), Point(100000002, 100000003)}

SampleSeqs == UNION {[1..n -> PointPool] : n \in 0..MaxSamples}

\* the constants a, b of a rescaling y -> a*y + b
Scales == {<<2, 0>>, <<2, 1>>}

ScaleY(data, sc) ==
  [di \in 1..Len(data) |->
     <<data[di][1], FAdd(FMul(FromInt(sc[1]), data[di][2]), FromInt(sc[2]))>>]

(* ---------------- state ------------------------------------------------ *)

VARIABLES
  file,          \* the input file artists.csv
  sum_zero,      \* sign bit of the zero an f64 sum starts from (toolchain)
  pc,            \* position in main: [at, rel]
  next_row,      \* the data row reader.records() yields next
  data_points,   \* the Vec<ArtistData> being built, then main's data
  parse_result,  \* "none", "ok", "err": what parse_artist_data returned
  fits,          \* calls of calculate_regression in main, with their results
  renders,       \* calls of visualize_relationship, with their results
  files,         \* image files written
  stdout,
  stderr,
  fit_pc,        \* calculate_regression on its own: "off", "input", "fitted", "scaled"
  fit_in,        \* its samples
  fit_out,       \* its result
  scale,         \* the rescaling applied to the samples
  scaled_out     \* the result on the rescaled samples

vars == <<file, sum_zero, pc, next_row, data_points, parse_result, fits, renders,
          files, stdout, stderr, fit_pc, fit_in, fit_out, scale, scaled_out>>

mainVars == <<file, pc, next_row, data_points, parse_result, fits, renders,
              files, stdout, stderr>>
fitVars == <<fit_pc, fit_in, fit_out, scale, scaled_out>>

At(a) == [at |-> a, rel |-> 0]
AtRel(a, r) == [at |-> a, rel |-> r]

NoFit == <<NaN, NaN>>

Init ==
  /\ file \in Files
  /\ sum_zero \in {0, 1}
  /\ pc = At("main")
  /\ next_row = 0
  /\ data_points = <<>>
  /\ parse_result = "none"
  /\ fits = <<>>
  /\ renders = <<>>
  /\ files = {}
  /\ stdout = <<>>
  /\ stderr = <<>>
  /\ fit_pc = "off"
  /\ fit_in = <<>>
  /\ fit_out = NoFit
  /\ scale = <<0, 0>>
  /\ scaled_out = NoFit

(* ---------------- parse_artist_data, called from main ------------------ *)

\* main going on to the analyses whatever parse_artist_data returned
AfterParseAlways(ok) == AtRel("fit", 1)

\* where main goes once parse_artist_data has returned
AfterParse(ok) == IF ok THEN AtRel("fit", 1) ELSE At("returned")

\* Reader::from_path(file_path)?
OpenFile ==
  /\ pc = At("main")
  /\ IF file.exists
     THEN /\ pc' = At("records")
          /\ next_row' = 1
          /\ stdout' = Append(stdout, "Reading file from path")
          /\ UNCHANGED <<parse_result, stderr>>
     ELSE /\ pc' = AfterParse(FALSE)
          /\ parse_result' = "err"
          /\ stdout' = Append(stdout, "Reading file from path")
          /\ stderr' = Append(stderr, "Error parsing dataset")
          /\ UNCHANGED next_row
  /\ UNCHANGED <<file, sum_zero, data_points, fits, renders, files>>
  /\ UNCHANGED fitVars

\* one turn of the loop over reader.records(): `record?`, the four fields, push
ReadRecord ==
  /\ pc = At("records")
  /\ next_row <= Len(file.rows)
  /\ ~RecordIsErr(file, next_row)
  /\ data_points' = Append(data_points, ArtistData(file.rows[next_row]))
  /\ next_row' = next_row + 1
  /\ UNCHANGED <<file, sum_zero, pc, parse_result, fits, renders, files, stdout, stderr>>
  /\ UNCHANGED fitVars

\* a read error skipping the row instead of ending the load
ReadErrorSkips ==
  /\ pc = At("records")
  /\ next_row <= Len(file.rows)
  /\ RecordIsErr(file, next_row)
  /\ next_row' = next_row + 1
  /\ UNCHANGED <<file, sum_zero, pc, data_points, parse_result, fits, renders,
                 files, stdout, stderr>>
  /\ UNCHANGED fitVars

\* `record?` on a read error: parse_artist_data returns Err, dropping the
\* records read so far; main reports it and returns
ReadError ==
  /\ pc = At("records")
  /\ next_row <= Len(file.rows)
  /\ RecordIsErr(file, next_row)
  /\ data_points' = <<>>
  /\ parse_result' = "err"
  /\ stderr' = Append(stderr, "Error parsing dataset")
  /\ pc' = AfterParse(FALSE)
  /\ UNCHANGED <<file, sum_zero, next_row, fits, renders, files, stdout>>
  /\ UNCHANGED fitVars

\* the loop is over: Ok(data_points)
ParseDone ==
  /\ pc = At("records")
  /\ next_row > Len(file.rows)
  /\ parse_result' = "ok"
  /\ stdout' = Append(stdout, "Successfully parsed")
  /\ pc' = AfterParse(TRUE)
  /\ UNCHANGED <<file, sum_zero, next_row, data_points, fits, renders, files, stderr>>
  /\ UNCHANGED fitVars

(* ---------------- the three analyses ----------------------------------- *)

\* main giving up on the remaining relationships after a failed render
AfterRenderAborts(r, ok) ==
  IF ok /\ r < Len(Relationships) THEN AtRel("fit", r + 1) ELSE At("returned")

\* where main goes after the render of relationship r, whatever its result
AfterRender(r, ok) == IF r < Len(Relationships) THEN AtRel("fit", r + 1) ELSE At("returned")

\* let (slope, intercept) = calculate_regression(&<x>_data); println!(...)
Fit(r) ==
  /\ pc = AtRel("fit", r)
  /\ fits' = Append(fits, [rel |-> r,
                           line |-> calculate_regression(Samples(data_points, r), sum_zero)])
  /\ stdout' = Append(stdout, Relationships[r].label)
  /\ pc' = AtRel("render", r)
  /\ UNCHANGED <<file, sum_zero, next_row, data_points, parse_result, renders, files, stderr>>
  /\ UNCHANGED fitVars

\* if let Err(e) = visualize_relationship(...) { eprintln!(...) }
\* The plotting library decides the result; ok is that result.
Render(r, ok) ==
  /\ pc = AtRel("render", r)
  /\ renders' = Append(renders, [rel |-> r,
                                 slope |-> fits[Len(fits)].line[1],
                                 intercept |-> fits[Len(fits)].line[2],
                                 title |-> Relationships[r].title,
                                 file_name |-> FileName(r),
                                 ok |-> ok])
  /\ IF ok
     THEN /\ files' = files \cup {FileName(r)}
          /\ stdout' = Append(stdout, "Scatter plot saved")
          /\ UNCHANGED stderr
     ELSE /\ stderr' = Append(stderr, Relationships[r].plot)
          /\ UNCHANGED <<files, stdout>>
  /\ pc' = AfterRender(r, ok)
  /\ UNCHANGED <<file, sum_zero, next_row, data_points, parse_result, fits>>
  /\ UNCHANGED fitVars

Next ==
  \/ OpenFile
  \/ ReadRecord
  \/ ReadError
  \/ ParseDone
  \/ \E r \in 1..Len(Relationships) : Fit(r)
  \/ \E r \in 1..Len(Relationships), ok \in BOOLEAN : Render(r, ok)

Spec == Init /\ [][Next]_vars

(* ---------------- calculate_regression on its own ---------------------- *)

FitInit ==
  /\ file = NoFile
  /\ sum_zero \in {0, 1}
  /\ pc = At("off")
  /\ next_row = 0
  /\ data_points = <<>>
  /\ parse_result = "none"
  /\ fits = <<>>
  /\ renders = <<>>
  /\ files = {}
  /\ stdout = <<>>
  /\ stderr = <<>>
  /\ fit_pc = "input"
  /\ fit_in \in SampleSeqs
  /\ fit_out = NoFit
  /\ scale = <<0, 0>>
  /\ scaled_out = NoFit

ApplyFit ==
  /\ fit_pc = "input"
  /\ fit_out' = calculate_regression(fit_in, sum_zero)
  /\ fit_pc' = "fitted"
  /\ UNCHANGED <<sum_zero, fit_in, scale, scaled_out>>
  /\ UNCHANGED mainVars

ApplyScaled(sc) ==
  /\ fit_pc = "fitted"
  /\ scale' = sc
  /\ scaled_out' = calculate_regression(ScaleY(fit_in, sc), sum_zero)
  /\ fit_pc' = "scaled"
  /\ UNCHANGED <<sum_zero, fit_in, fit_out>>
  /\ UNCHANGED mainVars

FitNext ==
  \/ ApplyFit
  \/ \E sc \in Scales : ApplyScaled(sc)

FitSpec == FitInit /\ [][FitNext]_vars

\* main and calculate_regression on its own, side by side
AnalysisSpec == (Init \/ FitInit) /\ [][Next \/ FitNext]_vars

(* ---------------- properties ------------------------------------------- *)

\* the four numeric columns and the record fields they fill
Columns ==
  <<[idx |-> 1, field |-> "total_streams"], [idx |-> 3, field |-> "solo_streams"],
    [idx |-> 4, field |-> "lead_streams"], [idx |-> 5, field |-> "feature_streams"]>>

CellMissing(row, idx) == idx + 1 > Len(row)
CellText(row, idx) == StripCommas(row[idx + 1])
CellParses(row, idx) == ParseF64(CellText(row, idx)).ok

\* the text is read as a number: it parses, and to a value that is one
IsNumberText(t) == ParseF64(t).ok /\ ~IsNaN(ParseF64(t).v)

\* every cell of the records read so far satisfies P(row, idx) => Q(field value)
AllCells(P(_, _), Q(_)) ==
  \A ri \in 1..Len(data_points), ci \in 1..Len(Columns) :
    P(file.rows[ri], Columns[ci].idx) => Q(data_points[ri][Columns[ci].field])

SomeCell(P(_, _), Q(_)) ==
  \E ri \in 1..Len(data_points), ci \in 1..Len(Columns) :
    P(file.rows[ri], Columns[ci].idx) /\ Q(data_points[ri][Columns[ci].field])

IsPlusZero(v) == v = Zero(0)
NonNegative(v) == FLe(Zero(0), v)

\* a load fails only for a missing file or a row of the wrong length
FailsOnlyOnStructure ==
  parse_result = "err" =>
    (~file.exists \/ \E ri \in 1..Len(file.rows) : RecordIsErr(file, ri))

\* C1 as stated: a cell that is missing or whose comma-stripped text is not a
\* number yields 0.0, and the load does not fail for it.
C1_NotANumberYieldsZero ==
  /\ AllCells(LAMBDA row, idx : CellMissing(row, idx) \/ ~IsNumberText(CellText(row, idx)),
              IsPlusZero)
  /\ FailsOnlyOnStructure

\* C1, amended: a cell that is missing or whose comma-stripped text the f64
\* parser rejects yields 0.0, the row still gives a record and the load fails
\* only for structural reasons; text the parser accepts (nan included) is kept.
C1_RejectedTextYieldsZero ==
  /\ AllCells(LAMBDA row, idx : CellMissing(row, idx) \/ ~CellParses(row, idx), IsPlusZero)
  /\ pc = At("records") => Len(data_points) = next_row - 1
  /\ FailsOnlyOnStructure

C1_Witness ==
  /\ parse_result = "ok"
  /\ SomeCell(CellMissing, IsPlusZero) \/
     SomeCell(LAMBDA row, idx : ~CellMissing(row, idx) /\ Len(CellText(row, idx)) > 0
                                  /\ ~CellParses(row, idx),
              IsPlusZero)

\* C2: a successful load of k data rows returns k records, the i-th built from
\* the i-th row; a structural read error returns an error and no records.
C2_RowsInOrder ==
  /\ pc = At("records") => Len(data_points) = next_row - 1
  /\ \A ri \in 1..Len(data_points) : data_points[ri] = ArtistData(file.rows[ri])
  /\ parse_result = "ok" =>
       /\ Len(data_points) = Len(file.rows)
       /\ \A ri \in 1..Len(file.rows) : ~RecordIsErr(file, ri)
  /\ parse_result = "err" => data_points = <<>>
  /\ (pc = At("returned") /\ \E ri \in 1..Len(file.rows) : RecordIsErr(file, ri)) =>
       parse_result = "err"

C2_Witness ==
  /\ parse_result = "ok"
  /\ Len(data_points) = MaxRows
  /\ data_points[1] # data_points[2]

Rec(total, solo, lead, feature) ==
  [total_streams |-> FromInt(total), solo_streams |-> FromInt(solo),
   feature_streams |-> FromInt(feature), lead_streams |-> FromInt(lead)]

ScenarioLoaded == file.header = Header5 /\ file.rows = ScenarioRows /\ Len(fits) >= 1

\* C3 as stated: the scenario rows give the records (1000, 500, 300, 200) and
\* (2000, 800, 600, 400) as (total, solo, lead, feature), the solo samples
\* (500, 1000), (800, 2000), and the fit slope 2.5, intercept -250.
C3_ScenarioAsStated ==
  ScenarioLoaded =>
    /\ data_points = <<Rec(1000, 500, 300, 200), Rec(2000, 800, 600, 400)>>
    /\ Samples(data_points, 1) = <<Point(500, 1000), Point(800, 2000)>>
    /\ fits[1].line = <<FDiv(FromInt(5), FromInt(2)), FromInt(-250)>>

\* C3, amended: with columns 1, 3, 4, 5 read as total, solo, lead, feature the
\* scenario rows give the records (1000, 300, 200, 0) and (2000, 600, 400, 0),
\* the solo samples (300, 1000), (600, 2000), and the fit slope
\* 3.3333333333333335 (10/3 rounded), intercept 0.
C3_ScenarioAsRead ==
  ScenarioLoaded =>
    /\ parse_result = "ok"
    /\ data_points = <<Rec(1000, 300, 200, 0), Rec(2000, 600, 400, 0)>>
    /\ Samples(data_points, 1) = <<Point(300, 1000), Point(600, 2000)>>
    /\ fits[1].rel = 1
    /\ fits[1].line = <<FDiv(FromInt(10), FromInt(3)), Zero(0)>>

C3_Witness == ScenarioLoaded /\ pc = AtRel("render", 1)

\* C4: after a failed load the error is reported and the run ends with no fit
\* and no render, in every state from then on.
C4_NoAnalysisAfterFailedLoad ==
  parse_result = "err" =>
    /\ pc = At("returned")
    /\ fits = <<>>
    /\ renders = <<>>
    /\ files = {}
    /\ stderr = <<"Error parsing dataset">>

C4_Witness ==
  /\ parse_result = "err"
  /\ file.exists
  /\ next_row = 2
  /\ pc = At("returned")

RelsOf(calls) == [ci \in 1..Len(calls) |-> calls[ci].rel]

\* the prefix of <<1, 2, 3>> of length n
FirstRels(n) == [ci \in 1..n |-> ci]

FailedRenders == SelectSeq(renders, LAMBDA call : ~call.ok)

\* main is at a position one of its steps starts from (the guards of the
\* actions: the three of the record loop cover every next_row)
CanStep ==
  \/ pc = At("main")
  \/ pc = At("records")
  \/ \E r \in 1..Len(Relationships) : pc = AtRel("fit", r) \/ pc = AtRel("render", r)

\* each relationship fitted and rendered at most once, in order, every failed
\* render reported, and all three done when main returns
C5_OncePerRelationship ==
  /\ RelsOf(fits) = FirstRels(Len(fits))
  /\ RelsOf(renders) = FirstRels(Len(renders))
  /\ Len(fits) <= Len(Relationships)
  /\ Len(renders) <= Len(fits) /\ Len(fits) <= Len(renders) + 1
  /\ stderr = [ci \in 1..Len(FailedRenders) |-> Relationships[FailedRenders[ci].rel].plot] \/
     parse_result = "err"
  /\ (parse_result = "ok" /\ pc = At("returned")) =>
       Len(fits) = Len(Relationships) /\ Len(renders) = Len(Relationships)

\* C5: after a successful load each relationship is fitted once and has its
\* render attempted once whatever the other renders did, failures are
\* reported, and the run is never stuck before main returns.
C5_AllRelationshipsProceed ==
  /\ C5_OncePerRelationship
  /\ pc # At("returned") => CanStep

C5_Witness ==
  /\ pc = At("returned")
  /\ Len(renders) = 3
  /\ ~renders[1].ok /\ renders[2].ok /\ ~renders[3].ok

\* C6 as stated: each file name is its title lower-cased, with underscores for
\* spaces and ".png" appended; the solo one is
\* total_streams_vs_solo_streams.png.
C6_PathFromTitle ==
  \A ci \in 1..Len(renders) :
    /\ renders[ci].file_name = TitlePath(renders[ci].title)
    /\ renders[ci].rel = 1 =>
         /\ renders[ci].title = <<"T", "o", "t", "a", "l", " ", "S", "t", "r", "e", "a", "m", "s", " ", "v", "s", " ", "S", "o", "l", "o", " ", "S", "t", "r", "e", "a", "m", "s">>
         /\ renders[ci].file_name = <<"t", "o", "t", "a", "l", "_", "s", "t", "r", "e", "a", "m", "s", "_", "v", "s", "_", "s", "o", "l", "o", "_", "s", "t", "r", "e", "a", "m", "s", ".", "p", "n", "g">>

FixedFileNames ==
  <<<<"s", "o", "l", "o", "_", "r", "e", "l", "a", "t", "i", "o", "n", "s", "h", "i", "p", ".", "p", "n", "g">>,
    <<"f", "e", "a", "t", "u", "r", "e", "d", "_", "r", "e", "l", "a", "t", "i", "o", "n", "s", "h", "i", "p", ".", "p", "n", "g">>,
    <<"l", "e", "a", "d", "_", "r", "e", "l", "a", "t", "i", "o", "n", "s", "h", "i", "p", ".", "p", "n", "g">>>>

\* C6, amended: the file names are fixed: solo_relationship.png,
\* featured_relationship.png and lead_relationship.png, for the titles "Total
\* Streams vs Solo Streams", "... Featured Streams" and "... Lead Streams".
C6_FixedPaths ==
  /\ \A ci \in 1..Len(renders) :
       /\ renders[ci].file_name = FixedFileNames[renders[ci].rel]
       /\ renders[ci].rel = 1 => renders[ci].title = <<"T", "o", "t", "a", "l", " ", "S", "t", "r", "e", "a", "m", "s", " ", "v", "s", " ", "S", "o", "l", "o", " ", "S", "t", "r", "e", "a", "m", "s">>
       /\ renders[ci].rel = 2 => renders[ci].title = <<"T", "o", "t", "a", "l", " ", "S", "t", "r", "e", "a", "m", "s", " ", "v", "s", " ", "F", "e", "a", "t", "u", "r", "e", "d", " ", "S", "t", "r", "e", "a", "m", "s">>
       /\ renders[ci].rel = 3 => renders[ci].title = <<"T", "o", "t", "a", "l", " ", "S", "t", "r", "e", "a", "m", "s", " ", "v", "s", " ", "L", "e", "a", "d", " ", "S", "t", "r", "e", "a", "m", "s">>
  /\ files = {renders[ci].file_name : ci \in {cj \in 1..Len(renders) : renders[cj].ok}}

C6_Witness == Len(renders) = 3 /\ Cardinality(files) = 3

\* C10 as stated: every record of a successful load has its four fields
\* non-negative, whatever the cells hold.
C10_FieldsNonNegative ==
  parse_result = "ok" => AllCells(LAMBDA row, idx : TRUE, NonNegative)

\* the text after an optional sign
Unsigned(t) == IF Len(t) > 0 /\ t[1] \in {"+", "-"} THEN Tail(t) ELSE t

MinusOrNan(t) ==
  Len(t) > 0 /\ (t[1] = "-" \/ LowerText(Unsigned(t)) = <<"n", "a", "n">>)

\* C10, amended: a field is non-negative when its cell is missing, is rejected
\* by the parser, or holds text without a leading minus sign other than nan; a
\* minus-signed numeral gives a negative field.
C10_UnsignedFieldsNonNegative ==
  AllCells(LAMBDA row, idx : CellMissing(row, idx) \/ ~CellParses(row, idx)
                               \/ ~MinusOrNan(CellText(row, idx)),
           NonNegative)

C10_Witness ==
  /\ parse_result = "ok"
  /\ SomeCell(LAMBDA row, idx : ~CellMissing(row, idx) /\ CellParses(row, idx)
                                  /\ ~MinusOrNan(CellText(row, idx)),
              LAMBDA v : FLt(Zero(0), v))
  /\ SomeCell(CellMissing, NonNegative)

(* ---------------- properties of calculate_regression ------------------- *)

Fitted == fit_pc \in {"fitted", "scaled"}

Xs(data) == {data[di][1] : di \in 1..Len(data)}

\* the integer a float of the pool holds, as a natural number
ToNat(x) == BShl(x.m, x.e)

RECURSIVE NatSumTo(_, _)
NatSumTo(terms, i) == IF i = 0 THEN <<>> ELSE BAdd(NatSumTo(terms, i - 1), terms[i])

\* the sums of calculate_regression computed without rounding
ExactSx(data) == NatSumTo([di \in 1..Len(data) |-> ToNat(data[di][1])], Len(data))
ExactSy(data) == NatSumTo([di \in 1..Len(data) |-> ToNat(data[di][2])], Len(data))
ExactSxy(data) ==
  NatSumTo([di \in 1..Len(data) |-> BMul(ToNat(data[di][1]), ToNat(data[di][2]))], Len(data))
ExactSxx(data) ==
  NatSumTo([di \in 1..Len(data) |-> BMul(ToNat(data[di][1]), ToNat(data[di][1]))], Len(data))

\* below 2^53: an integer every f64 operation yields without rounding
FitsF64(b) == BBitLen(b) <= Precision

\* every product and sum calculate_regression forms on data is exact
ExactRegime(data, m) ==
  /\ FitsF64(BMulSmall(ExactSxy(data), Len(data)))
  /\ FitsF64(BMul(ExactSx(data), ExactSy(data)))
  /\ FitsF64(BMulSmall(ExactSxx(data), Len(data)))
  /\ FitsF64(BMul(ExactSx(data), ExactSx(data)))
  /\ FitsF64(BMulSmall(ExactSx(data), IMax(m, -m)))

\* the lines y = m*x + c with integer m and c through two points of the pool
\* with different x, as <<m, c>>
Lines == {<<2, 0>>, <<1, 1>>, <<3, -3>>}

\* every sample satisfies y = m*x + c exactly
OnLine(data, l) ==
  \A di \in 1..Len(data) :
    BCmp(BAdd(ToNat(data[di][2]), BFromInt(IMax(-l[2], 0))),
         BAdd(BMulSmall(ToNat(data[di][1]), l[1]), BFromInt(IMax(l[2], 0)))) = 0

Tolerance == FDiv(FromInt(1), FromInt(1000000))

Within(v, k) == IsFinite(v) /\ FLe(FAbs(FSub(v, FromInt(k))), Tolerance)

Same(x, y) == (IsNaN(x) /\ IsNaN(y)) \/ FEq(x, y)

\* the fit of the rescaled samples is the rescaled fit
Covariant ==
  /\ Same(scaled_out[1], FMul(FromInt(scale[1]), fit_out[1]))
  /\ Same(scaled_out[2], FAdd(FMul(FromInt(scale[1]), fit_out[2]), FromInt(scale[2])))

\* C8 as stated: for samples with at least 2 distinct x and all a, b, fitting
\* (x, a*y + b) gives slope a*slope and intercept a*intercept + b.
C8_ScaleCovariant ==
  (fit_pc = "scaled" /\ Cardinality(Xs(fit_in)) >= 2) => Covariant

IsPowerOfTwo(a) == \E k \in 0..30 : a = 2^k

\* C8, amended: for samples with at least 2 distinct x, a a power of two and
\* b = 0, fitting (x, a*y) gives exactly slope a*slope and intercept
\* a*intercept (NaN where the fit is NaN), no overflow or underflow occurring.
C8_ScaleCovariantPowerOfTwo ==
  (fit_pc = "scaled" /\ Cardinality(Xs(fit_in)) >= 2
     /\ IsPowerOfTwo(scale[1]) /\ scale[2] = 0) => Covariant

C8_Witness ==
  /\ fit_pc = "scaled"
  /\ scale = <<2, 0>>
  /\ fit_in = <<Point(1, 2), Point(2, 3), Point(3, 6)>>
  /\ IsFinite(fit_out[1]) /\ ~IsZero(fit_out[2])
  /\ Covariant

\* the denominator calculate_regression computes on data
DenominatorOf(data) ==
  Denominator(FromUsize(Len(data)),
              Sum([di \in 1..Len(data) |-> data[di][1]], sum_zero),
              Sum([di \in 1..Len(data) |-> FMul(data[di][1], data[di][1])], sum_zero))

\* in main every fit is handed to its render, and main returns only after the
\* three renders
DriverContinues ==
  /\ \A ci \in 1..Len(renders) :
       /\ renders[ci].rel = fits[ci].rel
       /\ renders[ci].slope = fits[ci].line[1]
       /\ renders[ci].intercept = fits[ci].line[2]
  /\ \A r \in 1..Len(Relationships) : pc = AtRel("render", r) => Len(fits) = r
  /\ (pc = At("returned") /\ Len(fits) > 0) => Len(renders) = Len(Relationships)

\* C9 as stated: when all samples share the same x or there are none, the
\* slope is infinite or NaN, nothing is raised and the driver goes on to the
\* render and to the remaining relationships.
C9_DegenerateFitNonFinite ==
  /\ (Fitted /\ Cardinality(Xs(fit_in)) <= 1) => ~IsFinite(fit_out[1])
  /\ \A ci \in 1..Len(fits) :
       Cardinality(Xs(Samples(data_points, fits[ci].rel))) <= 1 => ~IsFinite(fits[ci].line[1])
  /\ DriverContinues

\* C9, amended: when there are no samples, or the denominator n*Sxx - Sx*Sx as
\* computed in f64 is zero (as it is for one or two samples sharing their x),
\* the slope is infinite or NaN, nothing is raised and the driver goes on to
\* the render and to the remaining relationships; samples sharing their x can
\* give a non-zero computed denominator and a finite slope.
C9_ZeroDenominatorNonFinite ==
  /\ (Fitted /\ (fit_in = <<>> \/ IsZero(DenominatorOf(fit_in)))) => ~IsFinite(fit_out[1])
  /\ (Fitted /\ Cardinality(Xs(fit_in)) <= 1 /\ Len(fit_in) <= 2) => ~IsFinite(fit_out[1])
  /\ \A ci \in 1..Len(fits) :
       LET samples == Samples(data_points, fits[ci].rel)
       IN (samples = <<>> \/ IsZero(DenominatorOf(samples))
             \/ (Cardinality(Xs(samples)) <= 1 /\ Len(samples) <= 2)) =>
            ~IsFinite(fits[ci].line[1])
  /\ DriverContinues

C9_Witness ==
  /\ pc = At("returned")
  /\ Len(data_points) = 2
  /\ Cardinality(Xs(Samples(data_points, 1))) = 1
  /\ ~IsFinite(fits[1].line[1])
  /\ Len(renders) = 3
  /\ ~renders[1].ok

====
